---- MODULE Spec2Model ----
(***************************************************************************)
(* Lead-intake pipeline of app.py (NYC Restaurant & Bar Navigator): the    *)
(* validator, the CSV record store, the two notification sinks and the     *)
(* landing / about form handlers, with the Streamlit session state they    *)
(* read and write.                                                         *)
(*                                                                         *)
(* Text is a sequence of one-character strings, so that str.strip,         *)
(* str.lower, the e-mail pattern and the CSV round trip are computed and   *)
(* not assumed.                                                            *)
(***************************************************************************)
EXTENDS Integers, Sequences, FiniteSets, TLC

\* Largest clock value explored (seconds since the process started).
MaxTime == 4

\* Minimum number of seconds between first render and submit (app.py:308, :417).
MinElapsed == 3

--------------------------------------------------------------------------
(* Text *)

UpperOf == [j |-> "J", k |-> "K", x |-> "X", c |-> "C", o |-> "O", n |-> "N", a |-> "A"]

LowerLetters == DOMAIN UpperOf

UpperLetters == {UpperOf[l] : l \in LowerLetters}

Letters == LowerLetters \cup UpperLetters

Digits == {"7"}

Whitespace == {" "}

\* str.lower on one character
LowerChar(ch) ==
    IF ch \in UpperLetters THEN CHOOSE l \in LowerLetters : UpperOf[l] = ch ELSE ch

\* str.lower
Lower(s) == [i \in 1..Len(s) |-> LowerChar(s[i])]

RECURSIVE LStrip(_)
LStrip(s) == IF s # <<>> /\ Head(s) \in Whitespace THEN LStrip(Tail(s)) ELSE s

RECURSIVE RStrip(_)
RStrip(s) ==
    IF s # <<>> /\ s[Len(s)] \in Whitespace THEN RStrip(SubSeq(s, 1, Len(s) - 1)) ELSE s

\* str.strip
Strip(s) == RStrip(LStrip(s))

--------------------------------------------------------------------------
(* Validator *)

\* [A-Z0-9._%+-] under re.IGNORECASE
LocalClass == Letters \cup Digits \cup {".", "_", "%", "+", "-"}

\* [A-Z0-9.-] under re.IGNORECASE
DomainClass == Letters \cup Digits \cup {".", "-"}

\* EMAIL_RE.match(s): ^local+ @ domain+ \. letters{2,}$ ; at is the place of
\* the "@" and dot the place of the dot that starts the top-level domain.
EmailReMatch(s) ==
    \E at \in 2..Len(s) : \E dot \in (at + 2)..(Len(s) - 2) :
        /\ s[at] = "@"
        /\ s[dot] = "."
        /\ \A i \in 1..(at - 1) : s[i] \in LocalClass
        /\ \A i \in (at + 1)..(dot - 1) : s[i] \in DomainClass
        /\ \A i \in (dot + 1)..Len(s) : s[i] \in Letters

valid_email(email) == email # <<>> /\ EmailReMatch(email)

\* The five checks of the submit branch, in the order the code appends them.
ErrName == "Full name is required."
ErrEmail == "Please enter a valid email."
ErrConsent == "Please agree to be contacted about early access."
ErrHoneypot == "Submission flagged. Please try again."
ErrTooFast == "Form submitted too quickly. Please try again."

\* Faulty variant: the honeypot check is missing.
Validate_ignores_honeypot(name, email, ok, hp, elapsed) ==
    (IF name = <<>> THEN <<ErrName>> ELSE <<>>)
    \o (IF ~valid_email(email) THEN <<ErrEmail>> ELSE <<>>)
    \o (IF ~ok THEN <<ErrConsent>> ELSE <<>>)
    \o (IF elapsed < MinElapsed THEN <<ErrTooFast>> ELSE <<>>)

\* Faulty variant: the checks are chained with elif, so only the first failure is listed.
Validate_first_error_only(name, email, ok, hp, elapsed) ==
    IF name = <<>> THEN <<ErrName>>
    ELSE IF ~valid_email(email) THEN <<ErrEmail>>
    ELSE IF ~ok THEN <<ErrConsent>>
    ELSE IF hp # <<>> THEN <<ErrHoneypot>>
    ELSE IF elapsed < MinElapsed THEN <<ErrTooFast>>
    ELSE <<>>

Validate(name, email, ok, hp, elapsed) ==
    (IF name = <<>> THEN <<ErrName>> ELSE <<>>)
    \o (IF ~valid_email(email) THEN <<ErrEmail>> ELSE <<>>)
    \o (IF ~ok THEN <<ErrConsent>> ELSE <<>>)
    \o (IF hp # <<>> THEN <<ErrHoneypot>> ELSE <<>>)
    \o (IF elapsed < MinElapsed THEN <<ErrTooFast>> ELSE <<>>)

--------------------------------------------------------------------------
(* Record store: data/waitlist.csv *)

\* A missing cell of a DataFrame (float NaN).
NaN == <<"NaN">>

\* Cell texts pandas.read_csv turns into NaN by default, among the texts a
\* form field of this model can hold.
NaValues == {<<>>, <<"N", "/", "A">>, <<"N", "A">>, <<"n", "a", "n">>}

\* Columns holding what the visitor typed. The other two hold "landing" or
\* "about" and an ISO-8601 timestamp: read_csv takes neither for a missing
\* value or a number, so they pass through a read and a write unchanged.
TextColumns == {"full_name", "email", "notes"}

Columns == TextColumns \cup {"source_page", "created_utc"}

\* pd.DataFrame()
EmptyFrame == [columns |-> {}, rows |-> <<>>]

ParseCell(text) == IF text \in NaValues THEN NaN ELSE text

\* pd.read_csv of a file the program wrote: every text cell is parsed.
ReadCsv(lines) ==
    [columns |-> Columns,
     rows |-> [i \in 1..Len(lines) |->
                 [col \in Columns |->
                    IF col \in TextColumns THEN ParseCell(lines[i][col])
                    ELSE lines[i][col]]]]

FormatCell(cell) == IF cell = NaN THEN <<>> ELSE cell

\* DataFrame.to_csv(index=False): NaN is written as the empty text.
ToCsv(df) ==
    [i \in 1..Len(df.rows) |->
        [col \in Columns |->
            IF col \in TextColumns THEN FormatCell(df.rows[i][col])
            ELSE df.rows[i][col]]]

\* The backing file: absent, present but failing in read_csv (unreadable:
\* open or decoding fails; corrupt: the parser raises, as on a 0-byte file),
\* or a table of lines.
FileKinds == {"missing", "unreadable", "corrupt", "table"}

MissingFile == [kind |-> "missing", lines |-> <<>>]

BrokenFile(kind) == [kind |-> kind, lines |-> <<>>]

\* pd.read_csv(CSV_PATH) on a file that exists: the frame, or an exception.
read_csv(f) ==
    IF f.kind = "table"
    THEN [raised |-> FALSE, df |-> ReadCsv(f.lines)]
    ELSE [raised |-> TRUE, df |-> EmptyFrame]

\* Faulty variant: read_csv is called without the try.
load_existing_unguarded(f) ==
    IF f.kind # "missing" THEN read_csv(f) ELSE [raised |-> FALSE, df |-> EmptyFrame]

\* load_existing: the frame returned and whether an exception left the
\* function.
load_existing(f) ==
    IF f.kind # "missing"
    THEN LET read == read_csv(f)
         IN IF read.raised
            THEN [raised |-> FALSE, df |-> EmptyFrame]     \* except Exception
            ELSE read
    ELSE [raised |-> FALSE, df |-> EmptyFrame]

\* Series.astype(str)
AsStr(cell) == IF cell = NaN THEN <<"n", "a", "n">> ELSE cell

\* Faulty variant: the membership test reads the full_name column.
EmailList_of_names(df) == {Lower(AsStr(df.rows[i]["full_name"])) : i \in 1..Len(df.rows)}

\* df["email"].astype(str).str.lower().tolist()
EmailList(df) == {Lower(AsStr(df.rows[i]["email"])) : i \in 1..Len(df.rows)}

\* pd.concat([df, row], ignore_index=True)
Concat(df, row) == [columns |-> df.columns \cup Columns, rows |-> Append(df.rows, row)]

\* Outcomes of out.to_csv(CSV_PATH): written; open() raises and the file is
\* left as it was; the write raises after open() truncated the file.
WriteOutcomes == {"ok", "open_raises", "write_raises"}

\* Faulty variant: the record is appended without the membership test.
persist_to_csv_unchecked(f, record, clock, wr) ==
    LET df == load_existing(f).df
        row == [col \in Columns |-> IF col = "created_utc" THEN clock ELSE record[col]]
    IN [raised |-> FALSE, is_new |-> TRUE,
        file |-> [kind |-> "table", lines |-> ToCsv(Concat(df, row))]]

\* persist_to_csv: whether an exception left the function, the value
\* returned otherwise, and the file afterwards.
persist_to_csv(f, record, clock, wr) ==
    LET loaded == load_existing(f)
        df == loaded.df
        email == Lower(Strip(record.email))
    IN IF loaded.raised
       THEN [raised |-> TRUE, is_new |-> FALSE, file |-> f]
       ELSE IF "email" \in df.columns /\ email \in EmailList(df)
       THEN [raised |-> FALSE, is_new |-> FALSE, file |-> f]
       ELSE LET row == [col \in Columns |->
                           IF col = "created_utc" THEN clock ELSE record[col]]
                out == Concat(df, row)
            IN CASE wr = "ok" ->
                      [raised |-> FALSE, is_new |-> TRUE,
                       file |-> [kind |-> "table", lines |-> ToCsv(out)]]
                 [] wr = "open_raises" ->
                      [raised |-> TRUE, is_new |-> FALSE, file |-> f]
                 [] wr = "write_raises" ->
                      [raised |-> TRUE, is_new |-> FALSE, file |-> BrokenFile("corrupt")]

--------------------------------------------------------------------------
(* Notification sinks *)

\* What post_webhook meets: requests not importable, USE_WEBHOOK not "true",
\* WEBHOOK_URL empty, the POST answered (any status), the POST raising
\* (connection error, timeout).
WebhookCases == {"nolib", "off", "nourl", "answered", "raises"}

\* Faulty variant: requests.post is called without the try.
post_webhook_unguarded(record, wh) ==
    IF wh \in {"nolib", "off", "nourl"} THEN [net |-> <<>>, raised |-> FALSE]
    ELSE [net |-> <<"requests.post">>, raised |-> wh = "raises"]

\* post_webhook: the HTTP requests attempted and whether an exception left
\* the function.
post_webhook(record, wh) ==
    IF wh \in {"nolib", "off"} THEN [net |-> <<>>, raised |-> FALSE]
    ELSE IF wh = "nourl" THEN [net |-> <<>>, raised |-> FALSE]
    ELSE LET post_raises == (wh = "raises")
             swallowed == TRUE      \* try: ... except Exception: pass
         IN [net |-> <<"requests.post">>, raised |-> post_raises /\ ~swallowed]

\* The gspread calls push_google_sheet makes, in order, when the worksheet
\* exists and when sh.worksheet raises WorksheetNotFound.
SheetPlan(ws_exists) ==
    IF ws_exists
    THEN <<"credentials", "authorize", "open_by_key", "worksheet", "append_row">>
    ELSE <<"credentials", "authorize", "open_by_key", "worksheet",
           "add_worksheet", "append_header", "append_row">>

\* What push_google_sheet meets: its gate (library missing, switch off, no
\* credentials configured, enabled), whether the worksheet exists, and the
\* call that raises (0: none).
SheetCases ==
    {[gate |-> g, ws_exists |-> TRUE, fail_at |-> 0] : g \in {"nolib", "off", "nocreds"}}
    \cup {[gate |-> "on", ws_exists |-> TRUE, fail_at |-> k] : k \in 0..Len(SheetPlan(TRUE))}
    \cup {[gate |-> "on", ws_exists |-> FALSE, fail_at |-> k] : k \in 0..Len(SheetPlan(FALSE))}

\* push_google_sheet: the calls attempted and whether an exception left the
\* function.
push_google_sheet(record, gs) ==
    IF gs.gate \in {"nolib", "off"} THEN [net |-> <<>>, raised |-> FALSE]
    ELSE IF gs.gate = "nocreds" THEN [net |-> <<>>, raised |-> FALSE]
    ELSE LET plan == SheetPlan(gs.ws_exists)
             fails == gs.fail_at \in 1..Len(plan)
             done == IF fails THEN SubSeq(plan, 1, gs.fail_at) ELSE plan
             swallowed == TRUE      \* the whole body is in try: ... except Exception: pass
         IN [net |-> done, raised |-> fails /\ ~swallowed]

--------------------------------------------------------------------------
(* Session state and the two pages *)

VARIABLES
    file,            \* data/waitlist.csv
    now,             \* time.time()
    visit_ts,        \* st.session_state.visit_ts: {} while unset, else {t}
    visit_ts_about,  \* st.session_state.visit_ts_about, likewise
    signed_up,       \* st.session_state.signed_up (FALSE while unset)
    accepted,        \* history: a submission of this session passed validation
    run,             \* what the latest script run did and showed
    op,              \* history: the step taken last
    handlers         \* submissions of other sessions inside persist_to_csv

vars == <<file, now, visit_ts, visit_ts_about, signed_up, accepted, run, op, handlers>>

Pages == {"landing", "about"}

\* run before any page is shown: the form values as the widgets hold them
\* (clear_on_submit=False keeps them on screen), the outcome, the errors
\* listed, the calls made and the I/O they attempted, what the sinks met
\* (history: <<>> or the webhook's and the sheet's case), and whether the template download is rendered.
NoRun ==
    [page |-> "none", name |-> <<>>, email |-> <<>>, ok |-> TRUE, hp |-> <<>>,
     result |-> "none", errs |-> <<>>, calls |-> <<>>, net |-> <<>>,
     met |-> <<>>, offered |-> FALSE]

\* The timestamp of a page's form and the one of the other page.
VisitTs(page) == IF page = "landing" THEN visit_ts ELSE visit_ts_about

\* The script runs of the sessions handled at the same time, one thread each.
Sessions == {"s1", "s2"}

\* A session with no submission being handled: where its thread stands, the
\* record it submitted, the frame load_existing gave it, and its outcome.
NoHandler ==
    [pc |-> "idle",
     record |-> [full_name |-> <<>>, email |-> <<>>, notes |-> <<>>, source_page |-> "none"],
     df |-> EmptyFrame, result |-> "none"]

\* Faulty variant: the timestamp is assigned on every script run.
FirstRender_every_run(ts) == {now}

\* if "visit_ts" not in st.session_state: st.session_state.visit_ts = time.time()
FirstRender(ts) == IF ts = {} THEN {now} ELSE ts

SetVisitTs(page) ==
    IF page = "landing"
    THEN visit_ts' = FirstRender(visit_ts) /\ UNCHANGED visit_ts_about
    ELSE visit_ts_about' = FirstRender(visit_ts_about) /\ UNCHANGED visit_ts

Call(fn, record) == [fn |-> fn, email |-> record.email]

\* Faulty variant: the e-mail is stored as typed.
Record_keeps_case(page, name, email, notes) ==
    [full_name |-> name, email |-> email,
     notes |-> IF page = "landing" THEN notes ELSE <<>>,
     source_page |-> page]

\* The record the submit branch builds (landing: lines 312-318, about: 421-427).
Record(page, name, email, notes) ==
    [full_name |-> name, email |-> Lower(email),
     notes |-> IF page = "landing" THEN notes ELSE <<>>,
     source_page |-> page]

Init ==
    /\ file \in {MissingFile, BrokenFile("corrupt")}
    /\ now = 0
    /\ visit_ts = {}
    /\ visit_ts_about = {}
    /\ signed_up = FALSE
    /\ accepted = FALSE
    /\ run = NoRun
    /\ op = "init"
    /\ handlers = [s \in Sessions |-> NoHandler]

\* Faulty variant: the download is rendered without the signed_up test.
Render_always_offers(page) ==
    /\ SetVisitTs(page)
    /\ run' = [NoRun EXCEPT !.page = page, !.offered = TRUE]
    /\ op' = "render"
    /\ UNCHANGED <<file, now, signed_up, accepted, handlers>>

\* A script run of a page without a form submission.
Render(page) ==
    /\ SetVisitTs(page)
    /\ run' = [NoRun EXCEPT !.page = page, !.offered = signed_up]
    /\ op' = "render"
    /\ UNCHANGED <<file, now, signed_up, accepted, handlers>>

\* errs of the submit branch (lines 303-308, 412-417) for the form values as
\* the widgets return them.
FormErrors(page, raw_name, raw_email, ok, hp) ==
    LET ts == CHOOSE t \in FirstRender(VisitTs(page)) : TRUE
    IN Validate(Strip(raw_name), Strip(raw_email), ok, hp, now - ts)

\* Faulty variant: the sinks are called under "if is_new:".
Accept_notifies_new_only(f, record, clock, wh, gs, wr) ==
    LET stored == persist_to_csv(f, record, clock, wr)
        hook == post_webhook(record, wh)
        sheet == push_google_sheet(record, gs)
    IN IF stored.raised
       THEN [file |-> stored.file, result |-> "error", signed_up |-> FALSE,
             calls |-> <<Call("persist_to_csv", record)>>, net |-> <<>>]
       ELSE IF stored.is_new
       THEN [file |-> stored.file, result |-> "new", signed_up |-> TRUE,
             calls |-> <<Call("persist_to_csv", record), Call("post_webhook", record),
                         Call("push_google_sheet", record)>>,
             net |-> hook.net \o sheet.net]
       ELSE [file |-> stored.file, result |-> "duplicate", signed_up |-> TRUE,
             calls |-> <<Call("persist_to_csv", record)>>, net |-> <<>>]

\* Lines 319-326 (428-435): the store, then the two sinks, then the flag and
\* the message. An exception that leaves a call ends the run there.
Accept(f, record, clock, wh, gs, wr) ==
    LET stored == persist_to_csv(f, record, clock, wr)
        hook == post_webhook(record, wh)
        sheet == push_google_sheet(record, gs)
        calls == <<Call("persist_to_csv", record), Call("post_webhook", record),
                   Call("push_google_sheet", record)>>
    IN IF stored.raised
       THEN [file |-> stored.file, result |-> "error", signed_up |-> FALSE,
             calls |-> SubSeq(calls, 1, 1), net |-> <<>>]
       ELSE IF hook.raised
       THEN [file |-> stored.file, result |-> "error", signed_up |-> FALSE,
             calls |-> SubSeq(calls, 1, 2), net |-> hook.net]
       ELSE IF sheet.raised
       THEN [file |-> stored.file, result |-> "error", signed_up |-> FALSE,
             calls |-> calls, net |-> hook.net \o sheet.net]
       ELSE [file |-> stored.file,
             result |-> IF stored.is_new THEN "new" ELSE "duplicate",
             signed_up |-> TRUE,
             calls |-> calls, net |-> hook.net \o sheet.net]

\* A script run of the page shown with its form submitted: the whole of the
\* "if submit:" branch and the gated download below it.
Submit(page, raw_name, raw_email, ok, hp, notes, wh, gs, wr) ==
    /\ run.page = page
    /\ SetVisitTs(page)
    /\ op' = "submit"
    /\ UNCHANGED <<now, handlers>>
    /\ LET name == Strip(raw_name)
           email == Strip(raw_email)
           errs == FormErrors(page, raw_name, raw_email, ok, hp)
           shown == [NoRun EXCEPT !.page = page, !.name = name, !.email = email,
                                  !.ok = ok, !.hp = hp]
       IN IF errs # <<>>
          THEN /\ run' = [shown EXCEPT !.result = "rejected", !.errs = errs,
                                       !.offered = signed_up]
               /\ UNCHANGED <<file, signed_up, accepted>>
          ELSE \E done \in {Accept(file, Record(page, name, email, notes), now, wh, gs, wr)} :
               /\ accepted' = TRUE
               /\ file' = done.file
               /\ signed_up' = (signed_up \/ done.signed_up)
               /\ run' = [shown EXCEPT !.result = done.result, !.calls = done.calls,
                                       !.net = done.net,
                                       !.met = <<wh, gs>>,
                                       !.offered = done.signed_up]

\* One second passes.
Tick ==
    /\ now < MaxTime
    /\ now' = now + 1
    /\ op' = "tick"
    /\ UNCHANGED <<file, visit_ts, visit_ts_about, signed_up, accepted, run, handlers>>

\* A new browser session: st.session_state starts empty; the file stays.
NewSession ==
    /\ visit_ts' = {}
    /\ visit_ts_about' = {}
    /\ signed_up' = FALSE
    /\ accepted' = FALSE
    /\ run' = NoRun
    /\ op' = "session"
    /\ UNCHANGED <<file, now, handlers>>

\* The environment removes the file or leaves it unreadable or corrupt.
Damage(kind) ==
    /\ file.kind # kind
    /\ file' = BrokenFile(kind)
    /\ op' = "damage"
    /\ UNCHANGED <<now, visit_ts, visit_ts_about, signed_up, accepted, run, handlers>>

--------------------------------------------------------------------------
(* Inputs explored *)

Jo == <<"J", "o">>
Blank == <<" ">>
EmailLower == <<"j", "@", "x", ".", "c", "o">>
EmailUpper == <<"J", "@", "X", ".", "C", "o">>
EmailOther == <<"k", "@", "x", ".", "c", "o">>
EmailShortTld == <<"j", "@", "x", ".", "c">>
NotApplicable == <<"N", "/", "A">>

Names == {Jo, Blank}
Emails == {EmailLower, EmailUpper, EmailOther, EmailShortTld}
Honeypots == {<<>>, <<"x">>}
NotesTexts == {<<>>, NotApplicable}

\* The spreadsheet sink switched off.
NoSheet == [gate |-> "off", ws_exists |-> TRUE, fail_at |-> 0]

\* A submission with the form values drawn from the given sets. The notes
\* box exists on the landing form only; the file write and the sinks are
\* reached only when the form has no error, so their outcomes are drawn
\* only then.
SubmitFrom(names, emails, oks, hps, notes, whs, gss, wrs) ==
    \E page \in Pages, raw_name \in names, raw_email \in emails, ok \in oks, hp \in hps :
        IF FormErrors(page, raw_name, raw_email, ok, hp) # <<>>
        THEN Submit(page, raw_name, raw_email, ok, hp, <<>>, "off", NoSheet, "ok")
        ELSE \E note \in (IF page = "landing" THEN notes ELSE {<<>>}),
                wh \in whs, gs \in gss, wr \in wrs :
                Submit(page, raw_name, raw_email, ok, hp, note, wh, gs, wr)

\* The environment's steps: time passes, a new session starts, the file is
\* removed or damaged.
Environment ==
    \/ Tick
    \/ NewSession
    \/ \E kind \in FileKinds \ {"table"} : Damage(kind)

Next ==
    \/ \E page \in Pages : Render(page)
    \/ SubmitFrom({Jo}, Emails, {TRUE}, {<<>>}, NotesTexts,
                  {"answered", "raises"}, {NoSheet}, WriteOutcomes)
    \/ Environment

\* Sessions that fill in name, consent and honeypot as a visitor would, with
\* every e-mail and note of the model, over a disk on which to_csv may fail.
Spec == Init /\ [][Next]_vars

NextDisk ==
    \/ \E page \in Pages : Render(page)
    \/ SubmitFrom({Jo}, Emails, {TRUE}, {<<>>}, NotesTexts,
                  {"answered", "raises"}, {NoSheet}, {"ok"})
    \/ Environment

\* The same sessions over a disk that takes every write.
SpecDisk == Init /\ [][NextDisk]_vars

NextForm ==
    \/ \E page \in Pages : Render(page)
    \/ SubmitFrom(Names, {EmailLower, EmailShortTld}, BOOLEAN, Honeypots, {<<>>},
                  {"answered"}, {NoSheet}, WriteOutcomes)
    \/ Tick
    \/ NewSession

\* Sessions that submit every combination of a present or blank name, a
\* matching or non-matching e-mail, consent, honeypot and elapsed time.
SpecForm == Init /\ [][NextForm]_vars

\* Both forms were first rendered MinElapsed seconds ago and the landing
\* page is shown.
InitSinks ==
    /\ file = MissingFile
    /\ now = MinElapsed
    /\ visit_ts = {0}
    /\ visit_ts_about = {0}
    /\ signed_up = FALSE
    /\ accepted = FALSE
    /\ run = [NoRun EXCEPT !.page = "landing"]
    /\ op = "render"
    /\ handlers = [s \in Sessions |-> NoHandler]

NextSinks ==
    \/ \E page \in Pages : Render(page)
    \/ SubmitFrom({Jo}, {EmailLower, EmailUpper}, {TRUE}, {<<>>}, {<<>>},
                  WebhookCases, SheetCases, {"ok"})

\* Valid submissions against every case of the two sinks.
SpecSinks == InitSinks /\ [][NextSinks]_vars

--------------------------------------------------------------------------
(* Submissions of several sessions handled at the same time *)

\* Streamlit runs the script of each session in a thread of its own, and
\* persist_to_csv takes no lock: between the pd.read_csv of one thread and
\* its to_csv, other threads may read and write the file. The read and the
\* write are each taken as one step. Every session rendered its form
\* MinElapsed seconds ago; the session variables above do not change here.

\* pd.DataFrame([{**record, "created_utc": ...}])
NewRow(record, clock) ==
    [col \in Columns |-> IF col = "created_utc" THEN clock ELSE record[col]]

SessionUnchanged == UNCHANGED <<now, visit_ts, visit_ts_about, signed_up, accepted, run, op>>

\* if submit: a session submits its form; the validator runs, and a form
\* without error goes on to persist_to_csv with its record.
Begin(s, page, raw_name, raw_email) ==
    /\ handlers[s].pc = "idle"
    /\ LET errs == FormErrors(page, raw_name, raw_email, TRUE, <<>>)
       IN handlers' = [handlers EXCEPT ![s] =
              IF errs # <<>>
              THEN [NoHandler EXCEPT !.pc = "done", !.result = "rejected"]
              ELSE [NoHandler EXCEPT !.pc = "load",
                        !.record = Record(page, Strip(raw_name), Strip(raw_email), <<>>)]]
    /\ UNCHANGED file
    /\ SessionUnchanged

\* df = load_existing()
Load(s) ==
    /\ handlers[s].pc = "load"
    /\ handlers' = [handlers EXCEPT ![s] =
           [@ EXCEPT !.pc = "store", !.df = load_existing(file).df]]
    /\ UNCHANGED file
    /\ SessionUnchanged

\* Faulty variant: the file is read again at the time of the write, as it
\* would be with the read and the write under one lock.
Store_rereads(s) ==
    /\ handlers[s].pc = "store"
    /\ LET h == handlers[s]
           df == load_existing(file).df
           email == Lower(Strip(h.record.email))
       IN IF "email" \in df.columns /\ email \in EmailList(df)
          THEN /\ handlers' = [handlers EXCEPT ![s] =
                      [@ EXCEPT !.pc = "done", !.result = "duplicate"]]
               /\ UNCHANGED file
          ELSE /\ handlers' = [handlers EXCEPT ![s] =
                      [@ EXCEPT !.pc = "done", !.result = "new"]]
               /\ file' = [kind |-> "table",
                           lines |-> ToCsv(Concat(df, NewRow(h.record, now)))]
    /\ SessionUnchanged

\* Faulty variant: the row is appended to the file as it is at the time of
\* the write (to_csv with mode="a") instead of replacing it.
Store_appends(s) ==
    /\ handlers[s].pc = "store"
    /\ LET h == handlers[s]
           email == Lower(Strip(h.record.email))
       IN IF "email" \in h.df.columns /\ email \in EmailList(h.df)
          THEN /\ handlers' = [handlers EXCEPT ![s] =
                      [@ EXCEPT !.pc = "done", !.result = "duplicate"]]
               /\ UNCHANGED file
          ELSE /\ handlers' = [handlers EXCEPT ![s] =
                      [@ EXCEPT !.pc = "done", !.result = "new"]]
               /\ file' = [kind |-> "table",
                           lines |-> ToCsv(Concat(load_existing(file).df,
                                                  NewRow(h.record, now)))]
    /\ SessionUnchanged

\* The rest of persist_to_csv on the frame read before: the membership
\* test, and for an e-mail not in that frame the concat and the to_csv that
\* replaces the whole file. The sinks and the message follow; they touch
\* neither the file nor the value returned.
Store(s) ==
    /\ handlers[s].pc = "store"
    /\ LET h == handlers[s]
           email == Lower(Strip(h.record.email))
       IN IF "email" \in h.df.columns /\ email \in EmailList(h.df)
          THEN /\ handlers' = [handlers EXCEPT ![s] =
                      [@ EXCEPT !.pc = "done", !.result = "duplicate"]]
               /\ UNCHANGED file
          ELSE /\ handlers' = [handlers EXCEPT ![s] =
                      [@ EXCEPT !.pc = "done", !.result = "new"]]
               /\ file' = [kind |-> "table",
                           lines |-> ToCsv(Concat(h.df, NewRow(h.record, now)))]
    /\ SessionUnchanged

\* The script run ends; the session may submit again.
Finish(s) ==
    /\ handlers[s].pc = "done"
    /\ handlers' = [handlers EXCEPT ![s] = NoHandler]
    /\ UNCHANGED file
    /\ SessionUnchanged

InitRace ==
    /\ file = MissingFile
    /\ now = MinElapsed
    /\ visit_ts = {0}
    /\ visit_ts_about = {0}
    /\ signed_up = FALSE
    /\ accepted = FALSE
    /\ run = NoRun
    /\ op = "init"
    /\ handlers = [s \in Sessions |-> NoHandler]

NextRace ==
    \E s \in Sessions :
        \/ \E page \in Pages, raw_email \in Emails : Begin(s, page, Jo, raw_email)
        \/ Load(s)
        \/ Store(s)
        \/ Finish(s)

\* Two sessions submitting at the same time, every interleaving of their
\* reads and writes of the file, over a disk that takes every write.
SpecRace == InitRace /\ [][NextRace]_vars

--------------------------------------------------------------------------
(* Properties *)

\* The lines of the file, none when no table is there.
Lines(f) == IF f.kind = "table" THEN f.lines ELSE <<>>

\* The lowercased e-mails of the records load() yields.
KeysOf(f) ==
    LET rows == load_existing(f).df.rows
    IN {Lower(AsStr(rows[i]["email"])) : i \in 1..Len(rows)}

\* The latest step was a submission that passed validation.
Validated == op = "submit" /\ run.errs = <<>>

\* C1: after any sequence of submissions through either form, from an empty
\* or missing store, no two stored records have the same lowercased e-mail.
C1_OneRecordPerEmail ==
    \A i, j \in 1..Len(Lines(file)) :
        i # j => Lower(file.lines[i]["email"]) # Lower(file.lines[j]["email"])

\* Two records, one from each form, and the latest submission was a duplicate.
C1_Witness ==
    /\ op = "submit" /\ run.result = "duplicate"
    /\ Len(Lines(file)) = 2
    /\ {file.lines[i]["source_page"] : i \in 1..2} = Pages

\* C2: a validated submission whose e-mail, in any letter case, is already
\* stored returns "duplicate" and leaves the file exactly as it was.
C2_DuplicateLeavesStore ==
    [][(Validated' /\ Lower(run'.email) \in KeysOf(file))
        => (run'.result = "duplicate" /\ file' = file)]_vars

\* An upper-case resubmission of a stored lower-case e-mail was a duplicate,
\* and the original record still holds the notes it was stored with.
C2_Witness ==
    /\ Validated /\ run.result = "duplicate" /\ run.email = EmailUpper
    /\ \E i \in 1..Len(Lines(file)) :
          /\ file.lines[i]["email"] = EmailLower
          /\ file.lines[i]["notes"] = NotApplicable

\* C3: a validated submission whose lowercased e-mail is not stored returns
\* "new"; load() then yields the records it yielded before, in order,
\* followed by one more whose e-mail is the lowercased submitted one.
C3_NewAppendsOne ==
    [][(Validated' /\ Lower(run'.email) \notin KeysOf(file))
        => LET before == load_existing(file).df.rows
               after == load_existing(file').df.rows
           IN /\ run'.result = "new"
              /\ Len(after) = Len(before) + 1
              /\ SubSeq(after, 1, Len(before)) = before
              /\ after[Len(after)]["email"] = Lower(run'.email)]_vars

\* J@X.Co was submitted as a second record and is stored as j@x.co.
C3_Witness ==
    /\ Validated /\ run.result = "new" /\ run.email = EmailUpper
    /\ Len(Lines(file)) = 2
    /\ file.lines[2]["email"] = EmailLower

\* A rule of the validator is violated by the form values shown in r, the
\* run of a submission that has just been handled in the primed state.
ViolatesPrimed(r) ==
    \/ r.name = <<>>
    \/ ~valid_email(r.email)
    \/ ~r.ok
    \/ r.hp # <<>>
    \/ LET ts == IF r.page = "landing" THEN visit_ts' ELSE visit_ts_about'
       IN now' - (CHOOSE t \in ts : TRUE) < MinElapsed

\* C4: a submission that violates at least one rule is rejected: the file
\* is unchanged, no store or sink call is made, and signed_up keeps its value.
C4_RejectedTouchesNothing ==
    [][(op' = "submit" /\ ViolatesPrimed(run'))
        => /\ run'.result = "rejected"
           /\ file' = file
           /\ run'.calls = <<>>
           /\ run'.net = <<>>
           /\ signed_up' = signed_up]_vars

\* Only the honeypot was filled in, in a session not signed up.
C4_Witness ==
    /\ op = "submit" /\ run.result = "rejected" /\ run.errs = <<ErrHoneypot>>
    /\ ~signed_up
    /\ ~run.offered

\* Seconds between the first render of the form of page and now.
Elapsed(page) == now - (CHOOSE t \in VisitTs(page) : TRUE)

\* The submitted e-mails of the model that match the pattern.
MatchingEmails == {EmailLower, EmailUpper, EmailOther}

\* C5: the errors shown are exactly the violated rules, in the order name,
\* e-mail, consent, honeypot, too fast, and the submission is accepted if
\* and only if there is none.
C5_AllRulesReported ==
    op = "submit" =>
        LET violated ==
                [e \in {ErrName, ErrEmail, ErrConsent, ErrHoneypot, ErrTooFast} |->
                    CASE e = ErrName -> run.name = <<>>
                      [] e = ErrEmail -> run.email \notin MatchingEmails
                      [] e = ErrConsent -> ~run.ok
                      [] e = ErrHoneypot -> run.hp # <<>>
                      [] e = ErrTooFast -> Elapsed(run.page) < MinElapsed]
            IsViolated(e) == violated[e]
        IN /\ run.errs = SelectSeq(<<ErrName, ErrEmail, ErrConsent, ErrHoneypot, ErrTooFast>>,
                                   IsViolated)
           /\ (run.result = "rejected") = (run.errs # <<>>)

\* All five rules were violated at once and all five are listed.
C5_Witness == op = "submit" /\ Len(run.errs) = 5

\* C6: a submission that passes validation calls the store, then the
\* webhook sink, then the spreadsheet sink, each with the submitted record,
\* and only then reports "new" or "duplicate".
C6_SinksAlwaysInvoked ==
    Validated =>
        /\ run.result \in {"new", "duplicate"}
        /\ run.calls = <<[fn |-> "persist_to_csv", email |-> Lower(run.email)],
                         [fn |-> "post_webhook", email |-> Lower(run.email)],
                         [fn |-> "push_google_sheet", email |-> Lower(run.email)]>>

\* A duplicate resubmission was posted to the webhook again.
C6_Witness ==
    /\ Validated /\ run.result = "duplicate"
    /\ run.net = <<"requests.post">>

\* C7: whatever the two sinks meet, an accepted submission reports what the
\* store returned ("duplicate" for a stored e-mail, "new" otherwise) and
\* never an error, the file is what the store call alone leaves, and the
\* spreadsheet sink is called after the webhook sink even when the POST fails.
C7_SinksNeverChangeResult ==
    [][Validated' =>
        LET stored_before == Lower(run'.email) \in KeysOf(file)
        IN /\ run'.result = IF stored_before THEN "duplicate" ELSE "new"
           /\ IF stored_before THEN file' = file
              ELSE Lines(file') = Lines(file) \o <<file'.lines[Len(file'.lines)]>>
           /\ Len(run'.calls) = 3
           /\ run'.calls[2].fn = "post_webhook"
           /\ run'.calls[3].fn = "push_google_sheet"]_vars

\* The POST raised, the spreadsheet sink went on to fail at its last call,
\* and the submission was reported as new.
C7_Witness ==
    /\ Validated /\ run.result = "new"
    /\ run.met[1] = "raises"
    /\ run.met[2].gate = "on" /\ ~run.met[2].ws_exists
    /\ run.met[2].fail_at = Len(SheetPlan(FALSE))
    /\ run.net = <<"requests.post">> \o SheetPlan(FALSE)

\* C8: every submission ends rejected, accepted as new or accepted as
\* duplicate, whatever the file read, the file write and the sinks do.
C8_NoFatalOutcome ==
    op = "submit" => run.result \in {"rejected", "new", "duplicate"}

\* C9: the download is rendered only with signed_up set, signed_up is set
\* only after a submission of the session passed validation, and within a
\* session it is never cleared.
C9_DownloadGated ==
    /\ [](run.offered => signed_up)
    /\ [](signed_up => accepted)
    /\ [][signed_up => (signed_up' \/ op' = "session")]_vars

\* The landing page offers the download after a sign-up made through the
\* about form only.
C9_Witness ==
    /\ op = "render" /\ run.page = "landing" /\ run.offered
    /\ Len(Lines(file)) = 1
    /\ file.lines[1]["source_page"] = "about"

\* C10: with the file missing, unreadable or corrupt, load() yields no
\* record and raises nothing, and a validated submission returns "new" and
\* leaves a file holding that one record.
C10_BrokenFileIsEmptyStore ==
    /\ [](file.kind # "table" => load_existing(file) = [raised |-> FALSE, df |-> EmptyFrame])
    /\ [][(Validated' /\ file.kind # "table")
           => /\ run'.result = "new"
              /\ file'.kind = "table"
              /\ Len(file'.lines) = 1
              /\ file'.lines[1]["email"] = Lower(run'.email)]_vars

\* A submission was stored as the only record of the file: there was no
\* table to read before it.
C10_Witness ==
    /\ Validated /\ run.result = "new"
    /\ Len(Lines(file)) = 1
    /\ file.lines[1]["notes"] = NotApplicable

\* C13: within a session the timestamp of a form is assigned by the first
\* render of its page, to the time of that render, and no later render or
\* submission, rejected or accepted, of either page changes it; so once
\* MinElapsed seconds have passed since that render, no submission of the
\* form is rejected as too quick.
C13_TimestampSetOnce ==
    [][\A page \in Pages :
          /\ (VisitTs(page) # {} /\ op' # "session") => VisitTs(page)' = VisitTs(page)
          /\ (VisitTs(page) = {} /\ VisitTs(page)' # {})
                => (op' = "render" /\ run'.page = page /\ VisitTs(page)' = {now'})
          /\ (VisitTs(page) # {} /\ Elapsed(page) >= MinElapsed
                /\ op' = "submit" /\ run'.page = page)
                => \A i \in 1..Len(run'.errs) : run'.errs[i] # ErrTooFast]_vars

\* A landing submission passed validation four seconds after the landing
\* page was first rendered, while the about page, first rendered two seconds
\* later, is still inside its own three seconds.
C13_Witness ==
    /\ Validated /\ run.page = "landing"
    /\ visit_ts = {0} /\ visit_ts_about = {2}
    /\ Elapsed("landing") = 4
    /\ Elapsed("about") < MinElapsed

\* The lowercased e-mail a handler tests and stores.
KeyOf(h) == Lower(Strip(h.record.email))

\* Both sessions have been told that their submission is new.
BothNew == \A s \in Sessions : handlers[s].pc = "done" /\ handlers[s].result = "new"

\* C11: a handler returns "new" exactly when its e-mail is not in the frame
\* it read, and its write replaces the whole file by that frame plus its
\* record, whatever other handlers wrote since the read (last writer wins);
\* so two submissions with different e-mails can both return "new" and
\* leave a file with one of the two records.
C11_LastWriterWins ==
    [][\A s \in Sessions :
          (handlers[s].pc = "store" /\ handlers'[s].pc = "done")
            => LET h == handlers[s]
                   after == load_existing(file').df.rows
               IN IF KeyOf(h) \in {Lower(AsStr(h.df.rows[i]["email"])) : i \in 1..Len(h.df.rows)}
                  THEN handlers'[s].result = "duplicate" /\ file' = file
                  ELSE /\ handlers'[s].result = "new"
                       /\ Len(after) = Len(h.df.rows) + 1
                       /\ SubSeq(after, 1, Len(h.df.rows)) = h.df.rows
                       /\ after[Len(after)]["email"] = KeyOf(h)]_vars

\* Both sessions were told "new" for different e-mails and the file holds
\* one record: the other write is lost.
C11_Witness ==
    /\ BothNew
    /\ KeyOf(handlers["s1"]) # KeyOf(handlers["s2"])
    /\ Len(Lines(file)) = 1

\* C12: under every interleaving of the reads and whole-file writes of
\* concurrent submissions, the records of the file have pairwise different
\* lowercased e-mails; two submissions of one e-mail can both return "new"
\* while one record is stored.
C12_RaceKeepsEmailsUnique ==
    Cardinality(KeysOf(file)) = Len(load_existing(file).df.rows)

\* Both sessions were told "new" for the same e-mail, submitted through
\* different forms, and the file holds one record.
C12_Witness ==
    /\ BothNew
    /\ KeyOf(handlers["s1"]) = KeyOf(handlers["s2"])
    /\ handlers["s1"].record.source_page # handlers["s2"].record.source_page
    /\ Len(Lines(file)) = 1

====
